---- MODULE Spec2Model ----
(***************************************************************************)
(* Model of the statement generators of bobandjanedoe:                     *)
(*   generate_statements.py          (checking ledger, main loop)          *)
(*   generate_savings_statements.py  (savings ledger, main loop)           *)
(*   generate_tax_return.py          (calculate_tax, Form1040 sections)    *)
(*   generate_retirement_statements.py (percentages of the summary)        *)
(*                                                                         *)
(* Money of the ledgers is an integer number of mills (1/1000 dollar), so  *)
(* that round(x, 2) is a real rounding to a multiple of 10 mills.  Incomes *)
(* of the tax calculator are integer cents, rates integer percent, and the *)
(* accumulated tax is in cent-percent (1/10000 dollar) until it is rounded.*)
(* Binary floating-point representation error (below 1e-9 dollar) is under *)
(* the resolution of the model.                                            *)
(***************************************************************************)
EXTENDS Integers, Sequences, FiniteSets, TLC

(***************************************************************************)
(* Bounds of the model.                                                    *)
(***************************************************************************)
\* the random source returns the fractions 0/RandLevels .. RandLevels/RandLevels
RandLevels == 3
\* a random tape is a sequence of TapeLen fractions, read cyclically
TapeLen == 2
\* longest input list handed to the bare ledger-building step
MaxRows == 3

(***************************************************************************)
(* Arithmetic helpers.                                                     *)
(***************************************************************************)
Min(a, b) == IF a <= b THEN a ELSE b

Max(a, b) == IF a >= b THEN a ELSE b

\* n/d rounded to the nearest integer, ties to the even one (Python's round)
RoundHalfEven(n, d) ==
    LET q == n \div d
        r == n % d
    IN  IF 2 * r < d THEN q
        ELSE IF 2 * r > d THEN q + 1
        ELSE IF q % 2 = 0 THEN q ELSE q + 1

\* round(x, 2) of an amount in mills
Round2(x) == RoundHalfEven(x, 10) * 10

\* the amount d dollars c cents, in mills
D(d, c) == (d * 100 + c) * 10

\* calendar.monthrange(year, month)[1]
LastDay(year, month) ==
    IF month = 2
    THEN IF (year % 4 = 0 /\ year % 100 # 0) \/ year % 400 = 0 THEN 29 ELSE 28
    ELSE IF month \in {4, 6, 9, 11} THEN 30 ELSE 31

\* datetime(year, month, day), as a number that orders like the dates
DateTime(year, month, day) == (year * 12 + (month - 1)) * 31 + day

DayOf(date) == ((date - 1) % 31) + 1

(***************************************************************************)
(* The random source: a tape of fractions u/RandLevels, read cyclically.   *)
(***************************************************************************)
Tapes == [1..TapeLen -> 0..RandLevels]

Draw(rng, k) == rng[((k - 1) % Len(rng)) + 1]

\* random.uniform(a, b) for the fraction u (a, b in mills)
Uniform(a, b, u) == a + ((b - a) * u) \div RandLevels

\* random.randint(a, b) for the fraction u
RandInt(a, b, u) == a + ((b - a) * u) \div RandLevels

\* random.choice(seq) for the fraction u
Choice(seq, u) == seq[1 + ((Len(seq) - 1) * u) \div RandLevels]

(***************************************************************************)
(* generate_statements.py: configuration tables.                           *)
(***************************************************************************)
YEAR == 2024

BOB_NET_PAY == D(2853, 43)

JANE_NET_PAY == D(1982, 39)

FIXED_EXPENSES ==
    << [name |-> "Mortgage w/Escrow - First TN Bank", amount |-> D(2215, 27), day |-> 1],
       [name |-> "Auto Insurance - State Farm",       amount |-> D(233, 0),   day |-> 5],
       [name |-> "Life Insurance - Northwestern",     amount |-> D(85, 0),    day |-> 10],
       [name |-> "Internet - Comcast",                amount |-> D(75, 0),    day |-> 8],
       [name |-> "Cell Phone - Verizon",              amount |-> D(140, 0),   day |-> 12],
       [name |-> "Health Insurance Premium",          amount |-> D(350, 0),   day |-> 1],
       [name |-> "Ford Motor Credit - Auto Loan",     amount |-> D(504, 0),   day |-> 15],
       [name |-> "Harley Davidson Financial",         amount |-> D(385, 0),   day |-> 10],
       [name |-> "Progressive MC Insurance",          amount |-> D(75, 0),    day |-> 10],
       [name |-> "Streaming - Netflix",               amount |-> D(15, 99),   day |-> 7],
       [name |-> "Streaming - Hulu",                  amount |-> D(17, 99),   day |-> 7],
       [name |-> "Streaming - Disney+",               amount |-> D(13, 99),   day |-> 12],
       [name |-> "Gym - Planet Fitness",              amount |-> D(49, 99),   day |-> 3] >>

UTILITIES ==
    << [name |-> "Nashville Electric Service", lo |-> D(140, 0), hi |-> D(210, 0), dlo |-> 15, dhi |-> 20],
       [name |-> "Piedmont Natural Gas",       lo |-> D(45, 0),  hi |-> D(85, 0),  dlo |-> 18, dhi |-> 22],
       [name |-> "Metro Water Services",       lo |-> D(50, 0),  hi |-> D(65, 0),  dlo |-> 10, dhi |-> 15] >>

GROCERIES == << "Kroger", "Publix", "Whole Foods", "Trader Joe's", "Costco", "Walmart Grocery" >>

GAS_STATIONS == << "Shell Oil", "Exxon", "BP", "Mapco", "Speedway" >>

DINING ==
    << "Chick-fil-A", "Panera Bread", "Chipotle", "Olive Garden", "Cracker Barrel", "Starbucks",
       "McDonald's", "Wendy's", "Local Bistro", "DoorDash", "Uber Eats" >>

SHOPPING ==
    << "Amazon.com", "Target", "Walmart", "Home Depot", "Lowe's", "TJ Maxx", "Kohl's", "Best Buy" >>

OTHER_VENDORS == << "CVS Pharmacy", "Walgreens", "Great Clips", "PetSmart", "Dollar General" >>

ATM_AMOUNTS == << 40, 60, 80, 100, 120 >>

(***************************************************************************)
(* Ledger rows: the tuples (date, desc, amount, balance) of the code.      *)
(***************************************************************************)
Row(date, desc, amount, balance) ==
    [date |-> date, desc |-> desc, amount |-> amount, balance |-> balance]

\* balance += amount; transactions.append((date, desc, amount, round(balance, 2)))
\* s is the generator's local state: the list, the unrounded balance, and the
\* number of the next random draw
Post(s, date, desc, amount) ==
    LET b == s.bal + amount
    IN  [s EXCEPT !.bal = b, !.tx = Append(@, Row(date, desc, amount, Round2(b)))]

Skip(s, n) == [s EXCEPT !.k = @ + n]

(***************************************************************************)
(* The ledger-building step: sort, then recompute the running balance.     *)
(***************************************************************************)
\* a sort by date alone
CheckingKeyDateOnly(x) == << x.date >>

\* key=lambda x: (x[0], -x[2])
CheckingKey(x) == << x.date, -x.amount >>

\* key=lambda x: x[0]
SavingsKey(x) == << x.date >>

\* Python's tuple comparison k1 < k2 for keys of the same length
RECURSIVE KeyLess(_, _)
KeyLess(k1, k2) ==
    IF Len(k1) = 0 THEN FALSE
    ELSE IF Head(k1) # Head(k2) THEN Head(k1) < Head(k2)
    ELSE KeyLess(Tail(k1), Tail(k2))

\* the place of a new row in a sorted list: behind every row whose key is not
\* greater (list.sort is stable)
InsertAt(keys, k) == 1 + Cardinality({ j \in DOMAIN keys : ~KeyLess(k, keys[j]) })

\* an insertion that overwrites a row already standing under the same key
InsertRowDedup(acc, row, k) ==
    IF \E j \in DOMAIN acc.keys : acc.keys[j] = k
    THEN LET j == CHOOSE j \in DOMAIN acc.keys : acc.keys[j] = k
         IN  [acc EXCEPT !.rows[j] = row]
    ELSE LET p == 1 + Cardinality({ j \in DOMAIN acc.keys : ~KeyLess(k, acc.keys[j]) })
         IN  [rows |-> SubSeq(acc.rows, 1, p - 1) \o << row >> \o SubSeq(acc.rows, p, Len(acc.rows)),
              keys |-> SubSeq(acc.keys, 1, p - 1) \o << k >> \o SubSeq(acc.keys, p, Len(acc.keys))]

InsertRow(acc, row, k) ==
    LET p == InsertAt(acc.keys, k)
    IN  [rows |-> SubSeq(acc.rows, 1, p - 1) \o << row >> \o SubSeq(acc.rows, p, Len(acc.rows)),
         keys |-> SubSeq(acc.keys, 1, p - 1) \o << k >> \o SubSeq(acc.keys, p, Len(acc.keys))]

\* rows[lo..hi] inserted one after the other, in the order of the list (the
\* range is halved only to keep TLC's evaluation shallow)
RECURSIVE SortRange(_, _, _, _, _)
SortRange(rows, keys, lo, hi, acc) ==
    IF lo > hi THEN acc
    ELSE IF lo = hi THEN InsertRow(acc, rows[lo], keys[lo])
    ELSE LET mid == (lo + hi) \div 2
             left == SortRange(rows, keys, lo, mid, acc)
         IN  \* the test makes TLC finish the first half before it starts the second
             IF Len(left.rows) >= 0 THEN SortRange(rows, keys, mid + 1, hi, left) ELSE left

\* the list left in the order it was built in
Unsorted(rows, keys) == rows

\* list.sort(key=...) with the keys already computed
StableSort(rows, keys) ==
    SortRange(rows, keys, 1, Len(rows), [rows |-> << >>, keys |-> << >>]).rows

\* transactions.sort(key=lambda x: (x[0], -x[2]))
SortChecking(transactions) ==
    StableSort(transactions, [i \in DOMAIN transactions |-> CheckingKey(transactions[i])])

\* transactions.sort(key=lambda x: x[0])
SortSavings(transactions) ==
    StableSort(transactions, [i \in DOMAIN transactions |-> SavingsKey(transactions[i])])

\* a balance that an overdraft rule keeps from going negative
NextBalanceClamped(bal, amount) == Max(0, Round2(bal + amount))

\* balance = round(balance + amount, 2)
NextBalance(bal, amount) == Round2(bal + amount)

\* the turn that keeps the balance posted before the sort
PostRowStale(acc, t) ==
    [final_transactions |-> Append(acc.final_transactions, t),
     balance |-> NextBalance(acc.balance, t.amount)]

\* one turn of: for date, desc, amount, _ in transactions
PostRow(acc, t) ==
    LET b == NextBalance(acc.balance, t.amount)
    IN  [final_transactions |-> Append(acc.final_transactions, Row(t.date, t.desc, t.amount, b)),
         balance |-> b]

\* the turns lo..hi of the loop, in the order of the list
RECURSIVE Recompute(_, _, _, _)
Recompute(transactions, lo, hi, acc) ==
    IF lo > hi THEN acc
    ELSE IF lo = hi THEN PostRow(acc, transactions[lo])
    ELSE LET mid == (lo + hi) \div 2
             left == Recompute(transactions, lo, mid, acc)
         IN  IF Len(left.final_transactions) >= 0
             THEN Recompute(transactions, mid + 1, hi, left) ELSE left

\* balance = start_balance; final_transactions = []; the loop; return
RunningBalance(transactions, start_balance) ==
    Recompute(transactions, 1, Len(transactions),
              [final_transactions |-> << >>, balance |-> start_balance])

\* the tail of generate_transactions: sort, recompute, return
BuildCheckingLedger(transactions, start_balance) ==
    RunningBalance(SortChecking(transactions), start_balance)

\* the tail of generate_savings_transactions
BuildSavingsLedger(transactions, start_balance) ==
    RunningBalance(SortSavings(transactions), start_balance)

(***************************************************************************)
(* generate_statements.py: generate_transactions.                          *)
(***************************************************************************)
\* the four paychecks, on the 15th and on the last day of the month
Paychecks(s, year, month, last_day) ==
    LET date1 == DateTime(year, month, 15)
        date2 == DateTime(year, month, last_day)
        s1 == Post(s,  date1, "Direct Deposit - ACME TECHNOLOGY CORP",   BOB_NET_PAY)
        s2 == Post(s1, date1, "Direct Deposit - METRO NASHVILLE SCHOOLS", JANE_NET_PAY)
        s3 == Post(s2, date2, "Direct Deposit - ACME TECHNOLOGY CORP",   BOB_NET_PAY)
    IN  Post(s3, date2, "Direct Deposit - METRO NASHVILLE SCHOOLS", JANE_NET_PAY)

\* for name, amount, day in MONTHLY_EXPENSES["fixed"]
RECURSIVE FixedExpenses(_, _, _, _, _)
FixedExpenses(s, i, year, month, last_day) ==
    IF i > Len(FIXED_EXPENSES) THEN s
    ELSE LET e == FIXED_EXPENSES[i]
             day == IF e.day > last_day THEN last_day ELSE e.day
         IN  FixedExpenses(Post(s, DateTime(year, month, day), e.name, -e.amount),
                           i + 1, year, month, last_day)

\* for name, amount_range, day_range in MONTHLY_EXPENSES["utilities"]
RECURSIVE Utilities(_, _, _, _, _, _)
Utilities(s, i, rng, year, month, last_day) ==
    IF i > Len(UTILITIES) THEN s
    ELSE LET e == UTILITIES[i]
             amount == Round2(Uniform(e.lo, e.hi, Draw(rng, s.k)))
             day == RandInt(e.dlo, Min(e.dhi, last_day), Draw(rng, s.k + 1))
         IN  Utilities(Skip(Post(s, DateTime(year, month, day), e.name, -amount), 2),
                       i + 1, rng, year, month, last_day)

\* for _ in range(n): one point-of-sale purchase of a random vendor, amount and day
RECURSIVE Purchases(_, _, _, _, _, _, _, _, _)
Purchases(s, n, vendors, lo, hi, rng, year, month, last_day) ==
    IF n = 0 THEN s
    ELSE LET vendor == Choice(vendors, Draw(rng, s.k))
             amount == Round2(Uniform(lo, hi, Draw(rng, s.k + 1)))
             day == RandInt(1, last_day, Draw(rng, s.k + 2))
         IN  Purchases(Skip(Post(s, DateTime(year, month, day), << "POS Purchase - ", vendor >>, -amount), 3),
                       n - 1, vendors, lo, hi, rng, year, month, last_day)

\* num = random.randint(nlo, nhi), then the loop
PurchaseGroup(s, nlo, nhi, vendors, lo, hi, rng, year, month, last_day) ==
    Purchases(Skip(s, 1), RandInt(nlo, nhi, Draw(rng, s.k)), vendors, lo, hi, rng, year, month, last_day)

\* for _ in range(num_atm)
RECURSIVE AtmLoop(_, _, _, _, _, _)
AtmLoop(s, n, rng, year, month, last_day) ==
    IF n = 0 THEN s
    ELSE LET amount == D(Choice(ATM_AMOUNTS, Draw(rng, s.k)), 0)
             day == RandInt(1, last_day, Draw(rng, s.k + 1))
         IN  AtmLoop(Skip(Post(s, DateTime(year, month, day), "ATM Withdrawal - First National Bank", -amount), 2),
                     n - 1, rng, year, month, last_day)

AtmWithdrawals(s, rng, year, month, last_day) ==
    AtmLoop(Skip(s, 1), RandInt(1, 3, Draw(rng, s.k)), rng, year, month, last_day)

SavingsTransfer(s, rng, year, month, last_day) ==
    LET transfer_day == RandInt(16, 20, Draw(rng, s.k))
    IN  Skip(Post(s, DateTime(year, month, Min(transfer_day, last_day)),
                  "Transfer to Savings ****9821", -D(500, 0)), 1)

DRAFTKINGS_TARGET == D(700, 0)

\* a wager drawn from 15.00 .. 75.00 whatever remains, and no closing wager
DraftKingsAmountUncapped(remaining, u) == Round2(Uniform(D(15, 0), D(75, 0), u))

\* if remaining <= 25: amount = remaining
\* else: amount = round(random.uniform(15, min(75, remaining)), 2)
DraftKingsAmount(remaining, u) ==
    IF remaining <= D(25, 0) THEN remaining
    ELSE Round2(Uniform(D(15, 0), Min(D(75, 0), remaining), u))

\* while draftkings_total < target_amount
RECURSIVE DraftKings(_, _, _, _, _, _)
DraftKings(s, total, rng, year, month, last_day) ==
    IF ~(total < DRAFTKINGS_TARGET) THEN s
    ELSE LET remaining == DRAFTKINGS_TARGET - total
             drawn == ~(remaining <= D(25, 0))
             amount == DraftKingsAmount(remaining, Draw(rng, s.k))
             k1 == IF drawn THEN s.k + 1 ELSE s.k
             day == RandInt(1, last_day, Draw(rng, k1))
             s1 == Post(s, DateTime(year, month, day), "DraftKings", -amount)
         IN  DraftKings([s1 EXCEPT !.k = k1 + 1], total + amount,
                        rng, year, month, last_day)

\* the list built before the sort
CheckingTransactions(year, month, start_balance, rng) ==
    LET last_day == LastDay(year, month)
        s0 == [tx |-> << >>, bal |-> start_balance, k |-> 1]
        s1 == Paychecks(s0, year, month, last_day)
        s2 == FixedExpenses(s1, 1, year, month, last_day)
        s3 == Utilities(s2, 1, rng, year, month, last_day)
        s4 == PurchaseGroup(s3, 4, 6,  GROCERIES,     D(85, 0), D(220, 0), rng, year, month, last_day)
        s5 == PurchaseGroup(s4, 6, 10, GAS_STATIONS,  D(35, 0), D(75, 0),  rng, year, month, last_day)
        s6 == PurchaseGroup(s5, 8, 12, DINING,        D(12, 0), D(85, 0),  rng, year, month, last_day)
        s7 == PurchaseGroup(s6, 3, 6,  SHOPPING,      D(25, 0), D(150, 0), rng, year, month, last_day)
        s8 == PurchaseGroup(s7, 2, 4,  OTHER_VENDORS, D(15, 0), D(60, 0),  rng, year, month, last_day)
        s9 == AtmWithdrawals(s8, rng, year, month, last_day)
        s10 == SavingsTransfer(s9, rng, year, month, last_day)
    IN  DraftKings(s10, 0, rng, year, month, last_day).tx

\* generate_transactions(year, month, start_balance): (final_transactions, balance)
generate_transactions(year, month, start_balance, rng) ==
    BuildCheckingLedger(CheckingTransactions(year, month, start_balance, rng), start_balance)

(***************************************************************************)
(* generate_savings_statements.py: generate_savings_transactions.          *)
(***************************************************************************)
MONTHLY_TRANSFER == D(500, 0)

\* ACCOUNT_INFO["apy"] / 100 / 12 = 4.25 / 1200 = 17 / 4800
MonthlyRateNum == 17

MonthlyRateDen == 4800

\* interest = round((start_balance + MONTHLY_TRANSFER) * monthly_rate, 2)
InterestAfterTransfer(start_balance) ==
    RoundHalfEven((start_balance + MONTHLY_TRANSFER) * MonthlyRateNum, MonthlyRateDen * 10) * 10

\* round(start_balance * monthly_rate, 2)
MonthlyInterest(start_balance) ==
    RoundHalfEven(start_balance * MonthlyRateNum, MonthlyRateDen * 10) * 10

WITHDRAWAL_REASONS ==
    << [reason |-> "Transfer to Checking - Car Repair",       lo |-> D(200, 0), hi |-> D(600, 0)],
       [reason |-> "Transfer to Checking - Medical",          lo |-> D(150, 0), hi |-> D(400, 0)],
       [reason |-> "Transfer to Checking - Home Repair",      lo |-> D(300, 0), hi |-> D(800, 0)],
       [reason |-> "Transfer to Checking - Holiday Shopping", lo |-> D(200, 0), hi |-> D(500, 0)],
       [reason |-> "Transfer to Checking - Vacation",         lo |-> D(400, 0), hi |-> D(1000, 0)] >>

\* a withdrawal day drawn up to the last day of the month
WithdrawalDaysToEnd(last_day) == 5..last_day

\* the random draws of one call: transfer_day = randint(16, 20); withdraw is
\* random.random() < 0.30; reason indexes random.choice; u is the fraction of
\* random.uniform; day = randint(5, last_day - 5)
\* day = random.randint(5, last_day - 5)
WithdrawalDays(last_day) == 5..(last_day - 5)

SavingsDraws(last_day) ==
    [transfer_day : 16..20, withdraw : BOOLEAN, reason : 1..Len(WITHDRAWAL_REASONS),
     u : 0..RandLevels, day : WithdrawalDays(last_day)]

\* the list built before the sort
SavingsTransactions(year, month, start_balance, d) ==
    LET last_day == LastDay(year, month)
        s0 == [tx |-> << >>, bal |-> start_balance, k |-> 1]
        s1 == Post(s0, DateTime(year, month, Min(d.transfer_day, last_day)),
                   "Transfer from Checking ****4827", MONTHLY_TRANSFER)
        s2 == Post(s1, DateTime(year, month, last_day), "Interest Payment",
                   MonthlyInterest(start_balance))
        w  == WITHDRAWAL_REASONS[d.reason]
        amount == Round2(Uniform(w.lo, w.hi, d.u))
        s3 == IF d.withdraw
              THEN Post(s2, DateTime(year, month, d.day), w.reason, -amount)
              ELSE s2
    IN  s3.tx

\* generate_savings_transactions(year, month, start_balance, ytd_interest):
\* (final_transactions, balance, interest, ytd_interest)
generate_savings_transactions(year, month, start_balance, ytd_interest, d) ==
    LET built == BuildSavingsLedger(SavingsTransactions(year, month, start_balance, d), start_balance)
        interest == MonthlyInterest(start_balance)
    IN  [final_transactions |-> built.final_transactions, balance |-> built.balance,
         interest |-> interest, ytd_interest |-> ytd_interest + interest]

(***************************************************************************)
(* generate_utility_bills.py: the four bill generators.  A date is the     *)
(* record of the arguments of datetime(); amounts are in mills.            *)
(***************************************************************************)
Date(year, month, day) == [year |-> year, month |-> month, day |-> day]

NO_DATE == Date(0, 0, 0)

\* datetime(year, month, day) raises ValueError unless the day is in the month
ValidDate(d) == d.month \in 1..12 /\ d.day >= 1 /\ d.day <= LastDay(d.year, d.month)

\* date + timedelta(days=n), for n of at most 31 days
AddDays(d, n) ==
    LET last_day == LastDay(d.year, d.month)
    IN  IF d.day + n <= last_day THEN Date(d.year, d.month, d.day + n)
        ELSE IF d.month = 12 THEN Date(d.year + 1, 1, d.day + n - last_day)
        ELSE Date(d.year, d.month + 1, d.day + n - last_day)

\* UTILITIES: amount_range, bill_day_range, rate_per_unit, base_charge
BILL_UTILITIES ==
    [ electric |-> [ amount_lo |-> D(140, 0), amount_hi |-> D(210, 0), day_lo |-> 15, day_hi |-> 20,
                     rate_per_unit |-> 120, base_charge |-> D(18, 50) ],
      gas      |-> [ amount_lo |-> D(45, 0), amount_hi |-> D(85, 0), day_lo |-> 18, day_hi |-> 22,
                     rate_per_unit |-> 1150, base_charge |-> D(12, 0) ],
      water    |-> [ amount_lo |-> D(50, 0), amount_hi |-> D(65, 0), day_lo |-> 10, day_hi |-> 15,
                     rate_per_unit |-> 4820, base_charge |-> D(8, 50) ] ]

\* UTILITIES["internet"]: amount, bill_day
INTERNET == [ amount |-> D(75, 0), bill_day |-> 8 ]

\* usage * 5.20, the sewer charge of the water bill, per CCF in mills
SEWER_RATE == 5200

NO_BILL ==
    [ bill_date |-> NO_DATE, due_date |-> NO_DATE, prev_read_date |-> NO_DATE,
      usage |-> 0, total_amount |-> 0 ]

\* the range of random.randint(bill_day_range[0], min(bill_day_range[1], last_day))
BillDayRange(utility, last_day) == [lo |-> utility.day_lo, hi |-> Min(utility.day_hi, last_day)]

\* the range of the random part of the usage, by utility and season
UsageRange(kind, month) ==
    IF kind = "electric"
    THEN IF month \in {6, 7, 8} THEN [base |-> 950, lo |-> 400, hi |-> 800]
         ELSE IF month \in {12, 1, 2} THEN [base |-> 950, lo |-> 200, hi |-> 400]
         ELSE [base |-> 950, lo |-> 50, hi |-> 200]
    ELSE IF kind = "gas"
    THEN IF month \in {11, 12, 1, 2, 3} THEN [base |-> 0, lo |-> 45, hi |-> 65]
         ELSE IF month \in {6, 7, 8, 9} THEN [base |-> 0, lo |-> 8, hi |-> 15]
         ELSE [base |-> 0, lo |-> 20, hi |-> 35]
    ELSE [base |-> 8, lo |-> 0, hi |-> 4]

\* the charges of a water bill that leaves the sewer charge out
ChargesWithoutSewer(kind, usage) ==
    Round2(usage * BILL_UTILITIES[kind].rate_per_unit + BILL_UTILITIES[kind].base_charge)

\* round(usage_charge + base_charge [+ sewer_charge], 2)
BillCharges(kind, usage) ==
    LET utility == BILL_UTILITIES[kind]
        sewer_charge == IF kind = "water" THEN usage * SEWER_RATE ELSE 0
    IN  Round2(usage * utility.rate_per_unit + utility.base_charge + sewer_charge)

\* the computed total, not brought into the amount range
Unclamped(utility, total_amount) == total_amount

\* max(amount_range[0], min(total_amount, amount_range[1]))
ClampAmount(utility, total_amount) ==
    Max(utility.amount_lo, Min(total_amount, utility.amount_hi))

\* the read date of the month before, on the day of last month's bill
PrevReadDateSameMonth(year, month, bill_day) == Date(year, month - 1, bill_day)

\* prev_month = month - 1 if month > 1 else 12
\* prev_year = year if month > 1 else year - 1
\* prev_read_date = datetime(prev_year, prev_month, bill_day)
PrevReadDate(year, month, bill_day) ==
    LET prev_month == IF month > 1 THEN month - 1 ELSE 12
        prev_year == IF month > 1 THEN year ELSE year - 1
    IN  Date(prev_year, prev_month, bill_day)

\* generate_electric_bill, generate_gas_bill, generate_water_bill (year, month),
\* with the two draws v (bill day) and u (usage): the bill, or the ValueError of
\* an empty randint range or of a day that is not in its month
generate_metered_bill(kind, year, month, v, u) ==
    LET utility == BILL_UTILITIES[kind]
        last_day == LastDay(year, month)
        days == BillDayRange(utility, last_day)
        bill_day == RandInt(days.lo, days.hi, v)
        bill_date == Date(year, month, bill_day)
        r == UsageRange(kind, month)
        usage == r.base + RandInt(r.lo, r.hi, u)
        total_amount == ClampAmount(utility, BillCharges(kind, usage))
        prev_read_date == PrevReadDate(year, month, bill_day)
    IN  IF days.lo > days.hi \/ ~ValidDate(bill_date) \/ r.lo > r.hi \/ ~ValidDate(prev_read_date)
        THEN [fault |-> "ValueError", bill |-> NO_BILL]
        ELSE [fault |-> "none",
              bill |-> [ bill_date |-> bill_date, due_date |-> AddDays(bill_date, 21),
                         prev_read_date |-> prev_read_date, usage |-> usage,
                         total_amount |-> total_amount ]]

\* generate_internet_bill(year, month)
generate_internet_bill(year, month) ==
    LET bill_day == Min(INTERNET.bill_day, LastDay(year, month))
        bill_date == Date(year, month, bill_day)
    IN  IF ~ValidDate(bill_date)
        THEN [fault |-> "ValueError", bill |-> NO_BILL]
        ELSE [fault |-> "none",
              bill |-> [ bill_date |-> bill_date, due_date |-> AddDays(bill_date, 21),
                         prev_read_date |-> NO_DATE, usage |-> 0,
                         total_amount |-> INTERNET.amount ]]

(***************************************************************************)
(* generate_tax_return.py: calculate_tax.  Incomes and bracket limits are  *)
(* in cents, rates in percent; the sum of the loop is in cent-percent.     *)
(***************************************************************************)
\* float('inf'): above every income of the model
INF == 2147483647

\* the amount d dollars, in cents
Cents(d) == d * 100

\* the table with the bounds of its second and third brackets exchanged
BRACKETS_UNORDERED ==
    << [limit |-> Cents(22000),  rate |-> 10],
       [limit |-> Cents(190750), rate |-> 12],
       [limit |-> Cents(89450),  rate |-> 22],
       [limit |-> Cents(364200), rate |-> 24],
       [limit |-> Cents(462500), rate |-> 32],
       [limit |-> Cents(693750), rate |-> 35],
       [limit |-> INF,           rate |-> 37] >>

\* TAX_CONSTANTS_2023["brackets_mfj"]
BRACKETS_MFJ ==
    << [limit |-> Cents(22000),  rate |-> 10],
       [limit |-> Cents(89450),  rate |-> 12],
       [limit |-> Cents(190750), rate |-> 22],
       [limit |-> Cents(364200), rate |-> 24],
       [limit |-> Cents(462500), rate |-> 32],
       [limit |-> Cents(693750), rate |-> 35],
       [limit |-> INF,           rate |-> 37] >>

\* a loop that never leaves early
NeverBreak(income, prev_bracket) == FALSE

\* a loop that leaves only when there is no income at all
BreakOnZeroIncome(income, prev_bracket) == income <= 0

\* if taxable_income < prev_bracket: break
BreakBelow(income, prev_bracket) == income < prev_bracket

\* if taxable_income <= prev_bracket: break
BracketBreak(income, prev_bracket) == income <= prev_bracket

\* an unbounded bracket that taxes nothing
TaxableFiniteOnly(income, bracket_limit, prev_bracket) ==
    IF bracket_limit = INF THEN 0 ELSE Min(income, bracket_limit) - prev_bracket

\* the income above the previous bound, not capped at the limit of the bracket
TaxableUncapped(income, bracket_limit, prev_bracket) == income - prev_bracket

\* the whole income up to the limit, the lower brackets not taken off
TaxableUpToLimit(income, bracket_limit, prev_bracket) == Min(income, bracket_limit)

\* taxable_in_bracket = min(taxable_income, bracket_limit) - prev_bracket
TaxableInBracket(income, bracket_limit, prev_bracket) ==
    Min(income, bracket_limit) - prev_bracket

\* tax = taxable_in_bracket * rate
Overwrite(sum, taxable_in_bracket, rate) == taxable_in_bracket * rate

\* tax += round(taxable_in_bracket * rate, 2)
AccumulateRounded(sum, taxable_in_bracket, rate) ==
    sum + RoundHalfEven(taxable_in_bracket * rate, 100) * 100

\* tax += taxable_in_bracket * rate
Accumulate(sum, taxable_in_bracket, rate) == sum + taxable_in_bracket * rate

\* for bracket_limit, rate in brackets, from the i-th bracket on
RECURSIVE TaxLoop(_, _, _, _, _)
TaxLoop(income, table, i, sum, prev_bracket) ==
    IF i > Len(table) THEN sum
    ELSE IF BracketBreak(income, prev_bracket) THEN sum
    ELSE LET bracket_limit == table[i].limit
             taxable_in_bracket == TaxableInBracket(income, bracket_limit, prev_bracket)
         IN  TaxLoop(income, table, i + 1,
                     Accumulate(sum, taxable_in_bracket, table[i].rate), bracket_limit)

\* the number of brackets whose loop body ran before the break or the end
RECURSIVE BracketsTaxed(_, _, _, _)
BracketsTaxed(income, table, i, prev_bracket) ==
    IF i > Len(table) THEN 0
    ELSE IF BracketBreak(income, prev_bracket) THEN 0
    ELSE 1 + BracketsTaxed(income, table, i + 1, table[i].limit)

\* calculate_tax(taxable_income, brackets): round(tax, 2), in cents
calculate_tax(income, table) == RoundHalfEven(TaxLoop(income, table, 1, 0, 0), 100)

(***************************************************************************)
(* The module-level tables of generate_statements.py,                      *)
(* generate_savings_statements.py and generate_tax_return.py.              *)
(***************************************************************************)
\* ACCOUNT_INFO["apy"] = 4.25, in hundredths of a percent
APY == 425

\* INCOME, in cents
INCOME ==
    [ bob_w2_wages             |-> Cents(95000),
      bob_w2_federal_withheld  |-> Cents(14250),
      jane_w2_wages            |-> Cents(65000),
      jane_w2_federal_withheld |-> Cents(8450),
      interest_income          |-> Cents(385),
      dividend_income          |-> 0 ]

\* TAX_CONSTANTS_2023['standard_deduction_mfj'], in cents
STANDARD_DEDUCTION_MFJ == Cents(27700)

MODULE_CONFIG ==
    [ brackets_mfj     |-> BRACKETS_MFJ,
      monthly_expenses |-> [ fixed        |-> FIXED_EXPENSES,
                             utilities    |-> UTILITIES,
                             groceries    |-> GROCERIES,
                             gas_stations |-> GAS_STATIONS,
                             dining       |-> DINING,
                             shopping     |-> SHOPPING,
                             other        |-> OTHER_VENDORS ],
      account_info     |-> [ apy |-> APY ],
      bob_net_pay      |-> BOB_NET_PAY,
      jane_net_pay     |-> JANE_NET_PAY,
      monthly_transfer |-> MONTHLY_TRANSFER,
      income           |-> INCOME,
      standard_deduction_mfj |-> STANDARD_DEDUCTION_MFJ ]

(***************************************************************************)
(* State.                                                                  *)
(***************************************************************************)
VARIABLES
    pc,              \* where the script is
    account,         \* "checking" or "savings": which script runs
    month,           \* the month of the current call
    balance,         \* main: the balance carried from month to month
    start_balance,   \* the start_balance argument of the current call
    end_balance,     \* the balance the call returned
    transactions,    \* the unsorted list handed to the ledger-building step
    ledger,          \* final_transactions, as returned
    interest,        \* savings: the interest the call returned
    ytd_interest,    \* savings: year-to-date interest
    posted_total,    \* the sum of the amounts of every ledger written so far
    taxable_income,  \* calculate_tax: its first argument, in cents
    brackets,        \* calculate_tax: its second argument
    tax,             \* calculate_tax: its result, in cents
    summary_data,    \* RetirementStatement.add_account_summary: its argument
    investments,     \* RetirementStatement.add_investment_allocation: its argument
    tax_data,        \* Form1040.tax_data
    pct,             \* the percentages a section printed, in tenths of a percent
    fault,           \* the exception that ended the script, or "none"
    config,          \* the module-level tables of the three scripts
    calls,           \* the functions called so far in a sequence of calls
    draftkings_total,\* the DraftKings loop: the total wagered so far
    appended,        \* the DraftKings loop: the number of rows it appended
    appended_sum,    \* the DraftKings loop: the sum of the amounts it appended
    last_row,        \* the DraftKings loop: the last row it appended
    bill             \* generate_utility_bills: the bill the call made

ledgerVars == << account, month, balance, start_balance, end_balance, transactions,
                 ledger, interest, ytd_interest, posted_total >>

taxVars == << taxable_income, brackets, tax >>

pctVars == << summary_data, investments, tax_data, pct, fault >>

loopVars == << draftkings_total, appended, appended_sum, last_row >>

callVars == << config, calls >>

billVars == << bill >>

\* no bill made
BillIdle == bill = NO_BILL

vars == << pc, ledgerVars, taxVars, pctVars, callVars, loopVars, billVars >>

\* the module-level tables as the scripts define them, no call made yet
ConfigLoaded == config = MODULE_CONFIG /\ calls = << >>

\* the variables of the DraftKings loop, for the steps outside it
LoopIdle ==
    /\ draftkings_total = 0
    /\ appended = 0
    /\ appended_sum = 0
    /\ last_row = << >>

\* the variables of the tax calculator, for the scripts that do not use it
TaxIdle == taxable_income = 0 /\ brackets = << >> /\ tax = 0

\* the variables of the percentages, for the scripts that do not print any
PctIdle ==
    /\ summary_data = [beginning_balance |-> 0, ending_balance |-> 0]
    /\ investments = << >>
    /\ tax_data = << >>
    /\ pct = << >>
    /\ fault = "none"

\* the variables of the ledgers, for the scripts that build none
LedgerIdle ==
    /\ account = "none"
    /\ month = 0
    /\ balance = 0
    /\ start_balance = 0
    /\ end_balance = 0
    /\ transactions = << >>
    /\ ledger = << >>
    /\ interest = 0
    /\ ytd_interest = 0
    /\ posted_total = 0

RECURSIVE SumAmounts(_)
SumAmounts(rows) == IF rows = << >> THEN 0 ELSE Head(rows).amount + SumAmounts(Tail(rows))

(***************************************************************************)
(* SpecGen: one call of a generator, for every month of the year, a few    *)
(* start balances and every random draw of the bounded random source.      *)
(***************************************************************************)
StartBalances == { D(3500, 0), D(8500, 0) }

\* the utilities billed by usage
METERED == { "electric", "gas", "water" }

InitGen ==
    /\ account \in { "checking", "savings" } \cup METERED \cup { "internet" }
    /\ pc = (IF account \in { "checking", "savings" } THEN "call" ELSE "bill")
    /\ month \in 1..12
    /\ start_balance \in (IF account \in { "checking", "savings" } THEN StartBalances ELSE { 0 })
    /\ balance = start_balance
    /\ end_balance = start_balance
    /\ transactions = << >>
    /\ ledger = << >>
    /\ interest = 0
    /\ ytd_interest = 0
    /\ posted_total = 0
    /\ TaxIdle
    /\ PctIdle
    /\ ConfigLoaded
    /\ LoopIdle
    /\ BillIdle

CallGenerateTransactions ==
    /\ pc = "call"
    /\ account = "checking"
    /\ \E rng \in Tapes :
         LET r == generate_transactions(YEAR, month, start_balance, rng)
         IN  /\ ledger' = r.final_transactions
             /\ end_balance' = r.balance
    /\ pc' = "returned"
    /\ UNCHANGED << callVars, loopVars, billVars >>
    /\ UNCHANGED << account, month, balance, start_balance, transactions, interest,
                    ytd_interest, posted_total, taxVars, pctVars >>

CallGenerateSavingsTransactions ==
    /\ pc = "call"
    /\ account = "savings"
    /\ \E d \in SavingsDraws(LastDay(YEAR, month)) :
         \* without a withdrawal the last three draws are not made
         /\ d.withdraw \/ (d.reason = 1 /\ d.u = 0 /\ d.day = 5)
         /\ LET r == generate_savings_transactions(YEAR, month, start_balance, ytd_interest, d)
            IN  /\ ledger' = r.final_transactions
                /\ end_balance' = r.balance
                /\ interest' = r.interest
                /\ ytd_interest' = r.ytd_interest
    /\ pc' = "returned"
    /\ UNCHANGED << callVars, loopVars, billVars >>
    /\ UNCHANGED << account, month, balance, start_balance, transactions, posted_total, taxVars, pctVars >>

\* pdf, amount, bill_date = generate_electric_bill(year, month), and the same
\* for gas and water
CallGenerateMeteredBill ==
    /\ pc = "bill"
    /\ account \in METERED
    /\ \E v \in 0..RandLevels : \E u \in 0..RandLevels :
         LET r == generate_metered_bill(account, YEAR, month, v, u)
         IN  /\ bill' = r.bill
             /\ fault' = r.fault
    /\ pc' = "billed"
    /\ UNCHANGED << ledgerVars, taxVars, summary_data, investments, tax_data, pct,
                    callVars, loopVars >>

\* pdf, amount, bill_date = generate_internet_bill(year, month)
CallGenerateInternetBill ==
    /\ pc = "bill"
    /\ account = "internet"
    /\ LET r == generate_internet_bill(YEAR, month)
       IN  /\ bill' = r.bill
           /\ fault' = r.fault
    /\ pc' = "billed"
    /\ UNCHANGED << ledgerVars, taxVars, summary_data, investments, tax_data, pct,
                    callVars, loopVars >>

NextGen ==
    \/ CallGenerateTransactions
    \/ CallGenerateSavingsTransactions
    \/ CallGenerateMeteredBill
    \/ CallGenerateInternetBill

SpecGen == InitGen /\ [][NextGen]_vars

(***************************************************************************)
(* SpecLedger: the ledger-building step alone (sort, then recompute), on   *)
(* every input list of at most MaxRows rows.                               *)
(***************************************************************************)
\* amounts of the input rows: the two of the documented example, a debit larger
\* than the start balance, and one that is not a whole number of cents
InputAmounts == { -D(50, 0), D(200, 0), -D(1200, 0), 5 }

InputDays == { 1, 2 }

InputRows ==
    { Row(DateTime(YEAR, 1, d), "t", a, 0) : d \in InputDays, a \in InputAmounts }

InputLists == UNION { [1..n -> InputRows] : n \in 0..MaxRows }

InitLedger ==
    /\ pc = "build"
    /\ account \in { "checking", "savings" }
    /\ month = 1
    /\ start_balance \in { D(1000, 0), 0 }
    /\ balance = start_balance
    /\ end_balance = start_balance
    /\ transactions \in InputLists
    /\ ledger = << >>
    /\ interest = 0
    /\ ytd_interest = 0
    /\ posted_total = 0
    /\ TaxIdle
    /\ PctIdle
    /\ ConfigLoaded
    /\ LoopIdle
    /\ BillIdle

\* the tail of the generator of the account
BuildLedger(acct, txs, start) ==
    IF acct = "checking" THEN BuildCheckingLedger(txs, start) ELSE BuildSavingsLedger(txs, start)

BuildChecking ==
    /\ pc = "build"
    /\ account = "checking"
    /\ LET r == BuildCheckingLedger(transactions, start_balance)
       IN  /\ ledger' = r.final_transactions
           /\ end_balance' = r.balance
    /\ pc' = "built"
    /\ UNCHANGED << callVars, loopVars, billVars >>
    /\ UNCHANGED << account, month, balance, start_balance, transactions, interest,
                    ytd_interest, posted_total, taxVars, pctVars >>

BuildSavings ==
    /\ pc = "build"
    /\ account = "savings"
    /\ LET r == BuildSavingsLedger(transactions, start_balance)
       IN  /\ ledger' = r.final_transactions
           /\ end_balance' = r.balance
    /\ pc' = "built"
    /\ UNCHANGED << callVars, loopVars, billVars >>
    /\ UNCHANGED << account, month, balance, start_balance, transactions, interest,
                    ytd_interest, posted_total, taxVars, pctVars >>

NextLedger == BuildChecking \/ BuildSavings

SpecLedger == InitLedger /\ [][NextLedger]_vars

(***************************************************************************)
(* SpecMain: the twelve monthly iterations of main, of the checking script *)
(* and of the savings script.  month counts the iterations done.           *)
(***************************************************************************)
\* both accounts opened with 3500.00
OpeningBalanceLow(acct) == D(3500, 0)

\* balance = 3500.00 / balance = 8500.00
OpeningBalance(acct) == IF acct = "checking" THEN D(3500, 0) ELSE D(8500, 0)

MONTHS == 12

\* a plain copy of the balance, not the returned one
KeepBalance(bal, end) == bal

\* balance = end_balance
CarryForward(bal, end) == end

\* the tapes of the monthly runs: every draw of a month at the low end, or every
\* draw at the high end
MainTapes == { [i \in 1..TapeLen |-> u] : u \in { 0, RandLevels } }

\* the draws of the monthly savings runs: no withdrawal, or the largest one
\* (the top of the range of the last reason), the days at the ends of their ranges
MainSavingsDraws(last_day) ==
    { [transfer_day |-> t, withdraw |-> FALSE, reason |-> 1, u |-> 0, day |-> 5] :
        t \in { 16, 20 } }
    \cup
    { [transfer_day |-> t, withdraw |-> TRUE, reason |-> Len(WITHDRAWAL_REASONS),
       u |-> RandLevels, day |-> y] : t \in { 16, 20 }, y \in { 5, last_day - 5 } }

InitMain ==
    /\ pc = "main"
    /\ account \in { "checking", "savings" }
    /\ month = 0
    /\ balance = OpeningBalance(account)
    /\ start_balance = balance
    /\ end_balance = balance
    /\ transactions = << >>
    /\ ledger = << >>
    /\ interest = 0
    /\ ytd_interest = 0
    /\ posted_total = 0
    /\ TaxIdle
    /\ PctIdle
    /\ ConfigLoaded
    /\ LoopIdle
    /\ BillIdle

\* one turn of the loop of generate_statements.main
MainCheckingMonth ==
    /\ pc = "main"
    /\ account = "checking"
    /\ month < MONTHS
    /\ \E rng \in MainTapes :
         LET r == generate_transactions(YEAR, month + 1, balance, rng)
         IN  /\ start_balance' = balance
             /\ ledger' = r.final_transactions
             /\ end_balance' = r.balance
             /\ posted_total' = posted_total + SumAmounts(r.final_transactions)
             /\ balance' = CarryForward(balance, r.balance)
    /\ month' = month + 1
    /\ UNCHANGED << callVars, loopVars, billVars >>
    /\ UNCHANGED << pc, account, transactions, interest, ytd_interest, taxVars, pctVars >>

\* one turn of the loop of generate_savings_statements.main
MainSavingsMonth ==
    /\ pc = "main"
    /\ account = "savings"
    /\ month < MONTHS
    /\ \E d \in MainSavingsDraws(LastDay(YEAR, month + 1)) :
         LET r == generate_savings_transactions(YEAR, month + 1, balance, ytd_interest, d)
         IN  /\ start_balance' = balance
             /\ ledger' = r.final_transactions
             /\ end_balance' = r.balance
             /\ interest' = r.interest
             /\ ytd_interest' = r.ytd_interest
             /\ posted_total' = posted_total + SumAmounts(r.final_transactions)
             /\ balance' = CarryForward(balance, r.balance)
    /\ month' = month + 1
    /\ UNCHANGED << callVars, loopVars, billVars >>
    /\ UNCHANGED << pc, account, transactions, taxVars, pctVars >>

\* after the loop: the final balance is printed
MainDone ==
    /\ pc = "main"
    /\ month = MONTHS
    /\ pc' = "done"
    /\ UNCHANGED << callVars, loopVars, billVars >>
    /\ UNCHANGED << account, month, balance, start_balance, end_balance, transactions,
                    ledger, interest, ytd_interest, posted_total, taxVars, pctVars >>

NextMain == MainCheckingMonth \/ MainSavingsMonth \/ MainDone

SpecMain == InitMain /\ [][NextMain]_vars

(***************************************************************************)
(* SpecTax: one call of calculate_tax, for the table of the return, the    *)
(* table of the documented example and every small table of at most        *)
(* MaxBrackets brackets, at incomes on, beside and between the limits.     *)
(***************************************************************************)
MaxBrackets == 2

SmallLimits == { Cents(100), Cents(200), Cents(300), INF }

SmallRates == { 0, 12, 37 }

\* upper bounds strictly increasing; only the last one may be unbounded
ValidTable(t) ==
    /\ \A i \in 1..(Len(t) - 1) : t[i].limit < t[i + 1].limit
    /\ \A i \in DOMAIN t : t[i].rate >= 0 /\ t[i].rate <= 100

SmallTables ==
    { t \in UNION { [1..n -> [limit : SmallLimits, rate : SmallRates]] : n \in 1..MaxBrackets } :
        ValidTable(t) }

EXAMPLE_BRACKETS == << [limit |-> Cents(22000), rate |-> 10], [limit |-> Cents(89450), rate |-> 12] >>

\* a table whose first bound is 0.04: brackets that hold fractions of a cent of tax
CENT_BRACKETS == << [limit |-> 4, rate |-> 12], [limit |-> INF, rate |-> 12] >>

BracketTables == SmallTables \cup { BRACKETS_MFJ, EXAMPLE_BRACKETS, CENT_BRACKETS }

\* steps of income across a limit, in cents
Increments == { 1, 33, 5000 }

FiniteLimits(t) == { t[i].limit : i \in DOMAIN t } \ { INF }

\* total income of the return less the standard deduction: 160385.00 - 27700.00
RETURN_TAXABLE_INCOME == Cents(132685)

\* a long step above a limit: 693750.00 + 56250.00 = 750000.00
TOP_STEP == Cents(56250)

IncomesFor(t) ==
    { 0, 1, Cents(30000), RETURN_TAXABLE_INCOME }
    \cup FiniteLimits(t)
    \cup { b - 1 : b \in FiniteLimits(t) }
    \cup { b + d : b \in FiniteLimits(t), d \in Increments \cup { TOP_STEP } }

InitTax ==
    /\ pc = "tax"
    /\ brackets \in BracketTables
    /\ taxable_income \in IncomesFor(brackets)
    /\ tax = 0
    /\ LedgerIdle
    /\ PctIdle
    /\ ConfigLoaded
    /\ LoopIdle
    /\ BillIdle

CalculateTax ==
    /\ pc = "tax"
    /\ tax' = calculate_tax(taxable_income, brackets)
    /\ pc' = "taxed"
    /\ UNCHANGED << callVars, loopVars, billVars >>
    /\ UNCHANGED << taxable_income, brackets, ledgerVars, pctVars >>

NextTax == CalculateTax

SpecTax == InitTax /\ [][NextTax]_vars

(***************************************************************************)
(* SpecPct: the three sections that print a percentage of a base:          *)
(*   RetirementStatement.add_account_summary     (change / beginning)      *)
(*   RetirementStatement.add_investment_allocation (value / total value)   *)
(*   Form1040.add_summary_page                   (total tax / total income)*)
(* Amounts are in cents, percentages in tenths of a percent (they are      *)
(* printed with one decimal).                                              *)
(***************************************************************************)
MaxFunds == 2

PctAmounts == { 0, Cents(1000), Cents(1500), Cents(2000), Cents(5000) }

FundValues == { 0, Cents(1000), Cents(3000) }

\* (part / base) * 100: the quotient, or the ZeroDivisionError Python raises
Percentage(part, base) ==
    IF base = 0
    THEN [fault |-> "ZeroDivisionError", value |-> 0]
    ELSE [fault |-> "none", value |-> RoundHalfEven(part * 1000, base)]

InitPct ==
    /\ pc \in { "account_summary", "investment_allocation", "summary_page" }
    /\ summary_data \in [beginning_balance : PctAmounts, ending_balance : PctAmounts]
    /\ pc # "account_summary" => summary_data = [beginning_balance |-> 0, ending_balance |-> 0]
    /\ investments \in UNION { [1..n -> [value : FundValues]] : n \in 0..MaxFunds }
    /\ pc # "investment_allocation" => investments = << >>
    /\ tax_data \in [total_tax : PctAmounts, total_income : PctAmounts]
    /\ pc # "summary_page" => tax_data = [total_tax |-> 0, total_income |-> 0]
    /\ pct = << >>
    /\ fault = "none"
    /\ LedgerIdle
    /\ TaxIdle
    /\ ConfigLoaded
    /\ LoopIdle
    /\ BillIdle

\* change = ending - beginning; change_pct = (change / beginning_balance) * 100
AddAccountSummary ==
    /\ pc = "account_summary"
    /\ LET change == summary_data.ending_balance - summary_data.beginning_balance
           r == Percentage(change, summary_data.beginning_balance)
       IN  /\ fault' = r.fault
           /\ pct' = IF r.fault = "none" THEN << r.value >> ELSE pct
    /\ pc' = "account_summary_end"
    /\ UNCHANGED << callVars, loopVars, billVars >>
    /\ UNCHANGED << summary_data, investments, tax_data, ledgerVars, taxVars >>

RECURSIVE SumValues(_)
SumValues(invs) == IF invs = << >> THEN 0 ELSE Head(invs).value + SumValues(Tail(invs))

\* total_value = sum(...); for each fund: pct = (inv['value'] / total_value) * 100
AddInvestmentAllocation ==
    /\ pc = "investment_allocation"
    /\ LET total_value == SumValues(investments)
           rows == [i \in DOMAIN investments |-> Percentage(investments[i].value, total_value)]
       IN  IF \E i \in DOMAIN rows : rows[i].fault # "none"
           THEN /\ fault' = "ZeroDivisionError"
                /\ pct' = pct
           ELSE /\ fault' = "none"
                /\ pct' = [i \in DOMAIN rows |-> rows[i].value]
    /\ pc' = "investment_allocation_end"
    /\ UNCHANGED << callVars, loopVars, billVars >>
    /\ UNCHANGED << summary_data, investments, tax_data, ledgerVars, taxVars >>

\* effective_rate = (tax_data['total_tax'] / tax_data['total_income']) * 100
AddSummaryPage ==
    /\ pc = "summary_page"
    /\ LET r == Percentage(tax_data.total_tax, tax_data.total_income)
       IN  /\ fault' = r.fault
           /\ pct' = IF r.fault = "none" THEN << r.value >> ELSE pct
    /\ pc' = "summary_page_end"
    /\ UNCHANGED << callVars, loopVars, billVars >>
    /\ UNCHANGED << summary_data, investments, tax_data, ledgerVars, taxVars >>

NextPct == AddAccountSummary \/ AddInvestmentAllocation \/ AddSummaryPage

SpecPct == InitPct /\ [][NextPct]_vars

(***************************************************************************)
(* SpecReturn: the sections of the tax return in the order main calls      *)
(* them, one section a step, on the dictionary tax_data the form starts    *)
(* with empty.  The INCOME table of the module is one of the tables of     *)
(* ReturnIncomes, so that the payments exceed, equal and fall short of the *)
(* tax and the adjusted gross income falls on either side of the standard  *)
(* deduction.  A section that reads a key no section has written raises    *)
(* KeyError and the run ends there.                                        *)
(***************************************************************************)
ReturnIncomes ==
    { [ bob_w2_wages             |-> bw,
        bob_w2_federal_withheld  |-> bh,
        jane_w2_wages            |-> jw,
        jane_w2_federal_withheld |-> jh,
        interest_income          |-> ii,
        dividend_income          |-> 0 ] :
      bw \in { 0, Cents(20000), Cents(95000) },
      bh \in { 0, Cents(14250) },
      jw \in { 0, Cents(65000) },
      jh \in { 0, 555570, Cents(8450) },
      ii \in { 0, Cents(385) } }

\* self.tax_data[key] = value
Put(data, key, value) ==
    [ k \in (DOMAIN data) \cup { key } |-> IF k = key THEN value ELSE data[k] ]

\* the calls with add_deductions_section ahead of add_adjustments_section
SECTIONS_SWAPPED ==
    << "add_taxpayer_info", "add_income_section", "add_deductions_section",
       "add_adjustments_section", "add_tax_computation", "add_payments_section",
       "add_refund_section", "add_signature_section", "add_summary_page",
       "print_summary" >>

\* the calls of main on the form, in its order, and the print-out after them
SECTIONS ==
    << "add_taxpayer_info", "add_income_section", "add_adjustments_section",
       "add_deductions_section", "add_tax_computation", "add_payments_section",
       "add_refund_section", "add_signature_section", "add_summary_page",
       "print_summary" >>

\* the position after section s returns
NextSection(s) ==
    LET i == CHOOSE j \in 1..Len(SECTIONS) : SECTIONS[j] = s
    IN  IF i = Len(SECTIONS) THEN "return_done" ELSE SECTIONS[i + 1]

\* the keys of tax_data a section reads, on the data it finds
ReadsOf(s, data) ==
    LET summary ==
            { "total_income", "standard_deduction", "taxable_income", "total_tax",
              "total_payments", "refund" }
            \cup (IF "refund" \in DOMAIN data /\ data["refund"] > 0
                  THEN {} ELSE { "amount_owed" })
    IN  CASE s = "add_adjustments_section" -> { "total_income" }
          [] s = "add_deductions_section"  -> { "agi" }
          [] s = "add_tax_computation"     -> { "taxable_income" }
          [] s = "add_refund_section"      -> { "total_payments", "total_tax" }
          [] s = "add_summary_page"        -> summary
          [] s = "print_summary"           -> summary
          [] OTHER                         -> {}

\* a read of the section finds no key
KeyMissing(s, data) == ~(ReadsOf(s, data) \subseteq DOMAIN data)

\* taxable_income = agi - standard_ded, with no floor
TaxableIncomeSigned(agi, standard_ded) == agi - standard_ded

\* taxable_income = max(0, agi - standard_ded)
TaxableIncome(agi, standard_ded) == Max(0, agi - standard_ded)

\* refund = total_payments - total_tax on either branch
RefundSigned(total_payments, total_tax) ==
    [ refund |-> total_payments - total_tax, amount_owed |-> 0 ]

\* the branch of add_refund_section
Refund(total_payments, total_tax) ==
    IF total_payments > total_tax
    THEN [ refund |-> total_payments - total_tax, amount_owed |-> 0 ]
    ELSE [ refund |-> 0, amount_owed |-> total_tax - total_payments ]

\* pdf = Form1040(): tax_data = {}
InitReturn ==
    /\ pc = "add_taxpayer_info"
    /\ config \in { [ MODULE_CONFIG EXCEPT !.income = i ] : i \in ReturnIncomes }
    /\ calls = << >>
    /\ PctIdle
    /\ LedgerIdle
    /\ TaxIdle
    /\ LoopIdle
    /\ BillIdle

\* what no section of the return touches
ReturnFrame ==
    UNCHANGED << summary_data, investments, ledgerVars, taxVars, callVars, loopVars,
                 billVars >>

\* the section raises KeyError with tax_data as data
RaiseKeyError(data) ==
    /\ fault' = "KeyError"
    /\ pc' = "raised"
    /\ tax_data' = data
    /\ UNCHANGED pct

\* the section returns with tax_data as data
ReturnFrom(data) ==
    /\ tax_data' = data
    /\ pc' = NextSection(pc)
    /\ UNCHANGED << pct, fault >>

AddTaxpayerInfo ==
    /\ pc = "add_taxpayer_info"
    /\ ReturnFrom(tax_data)
    /\ ReturnFrame

AddIncomeSection ==
    /\ pc = "add_income_section"
    /\ LET total_wages == config.income.bob_w2_wages + config.income.jane_w2_wages
           total_interest == config.income.interest_income
           total_income == total_wages + total_interest
       IN  ReturnFrom(Put(Put(Put(tax_data, "total_wages", total_wages),
                              "total_interest", total_interest),
                          "total_income", total_income))
    /\ ReturnFrame

AddAdjustmentsSection ==
    /\ pc = "add_adjustments_section"
    /\ IF KeyMissing(pc, tax_data)
       THEN RaiseKeyError(tax_data)
       ELSE ReturnFrom(Put(tax_data, "agi", tax_data["total_income"]))
    /\ ReturnFrame

AddDeductionsSection ==
    /\ pc = "add_deductions_section"
    /\ LET standard_ded == config.standard_deduction_mfj
           data == Put(tax_data, "standard_deduction", standard_ded)
       IN  IF KeyMissing(pc, data)
           THEN RaiseKeyError(data)
           ELSE ReturnFrom(Put(data, "taxable_income",
                               TaxableIncome(data["agi"], standard_ded)))
    /\ ReturnFrame

AddTaxComputation ==
    /\ pc = "add_tax_computation"
    /\ IF KeyMissing(pc, tax_data)
       THEN RaiseKeyError(tax_data)
       ELSE LET t == calculate_tax(tax_data["taxable_income"], config.brackets_mfj)
            IN  ReturnFrom(Put(Put(tax_data, "tax", t), "total_tax", t))
    /\ ReturnFrame

AddPaymentsSection ==
    /\ pc = "add_payments_section"
    /\ LET total_withheld == config.income.bob_w2_federal_withheld
                             + config.income.jane_w2_federal_withheld
       IN  ReturnFrom(Put(Put(tax_data, "total_withheld", total_withheld),
                          "total_payments", total_withheld))
    /\ ReturnFrame

AddRefundSection ==
    /\ pc = "add_refund_section"
    /\ IF KeyMissing(pc, tax_data)
       THEN RaiseKeyError(tax_data)
       ELSE LET r == Refund(tax_data["total_payments"], tax_data["total_tax"])
            IN  ReturnFrom(Put(Put(tax_data, "refund", r.refund),
                               "amount_owed", r.amount_owed))
    /\ ReturnFrame

AddSignatureSection ==
    /\ pc = "add_signature_section"
    /\ ReturnFrom(tax_data)
    /\ ReturnFrame

\* the summary page: the keys it prints, then the effective rate
ReturnSummaryPage ==
    /\ pc = "add_summary_page"
    /\ IF KeyMissing(pc, tax_data)
       THEN RaiseKeyError(tax_data)
       ELSE LET r == Percentage(tax_data["total_tax"], tax_data["total_income"])
            IN  /\ fault' = r.fault
                /\ pct' = IF r.fault = "none" THEN << r.value >> ELSE pct
                /\ pc' = IF r.fault = "none" THEN NextSection(pc) ELSE "raised"
                /\ UNCHANGED tax_data
    /\ ReturnFrame

\* the lines main prints after the file is written
PrintSummary ==
    /\ pc = "print_summary"
    /\ IF KeyMissing(pc, tax_data)
       THEN RaiseKeyError(tax_data)
       ELSE ReturnFrom(tax_data)
    /\ ReturnFrame

NextReturn ==
    \/ AddTaxpayerInfo
    \/ AddIncomeSection
    \/ AddAdjustmentsSection
    \/ AddDeductionsSection
    \/ AddTaxComputation
    \/ AddPaymentsSection
    \/ AddRefundSection
    \/ AddSignatureSection
    \/ ReturnSummaryPage
    \/ PrintSummary

SpecReturn == InitReturn /\ [][NextReturn]_vars

(***************************************************************************)
(* SpecDraftKings: the DraftKings loop of generate_transactions, one       *)
(* iteration a step, every iteration with any draw of the amount and of    *)
(* the day.  The rows appended are kept as their number, their sum and the *)
(* last of them.  The loop is sequential code: an iteration that can run   *)
(* does run (weak fairness).                                               *)
(***************************************************************************)
\* the month of the call: February, the shortest
LoopMonths == { 2 }

InitDraftKings ==
    /\ pc = "draftkings"
    /\ account = "checking"
    /\ month \in LoopMonths
    /\ balance = OpeningBalance("checking")
    /\ start_balance = balance
    /\ end_balance = balance
    /\ transactions = << >>
    /\ ledger = << >>
    /\ interest = 0
    /\ ytd_interest = 0
    /\ posted_total = 0
    /\ TaxIdle
    /\ PctIdle
    /\ ConfigLoaded
    /\ LoopIdle
    /\ BillIdle

\* one turn of: while draftkings_total < target_amount
DraftKingsIteration ==
    /\ pc = "draftkings"
    /\ draftkings_total < DRAFTKINGS_TARGET
    /\ \E u \in 0..RandLevels : \E v \in 0..RandLevels :
         LET remaining == DRAFTKINGS_TARGET - draftkings_total
             amount == DraftKingsAmount(remaining, u)
             day == RandInt(1, LastDay(YEAR, month), v)
         IN  /\ draftkings_total' = draftkings_total + amount
             /\ balance' = balance - amount
             /\ last_row' = Row(DateTime(YEAR, month, day), "DraftKings", -amount,
                                Round2(balance - amount))
             /\ appended_sum' = appended_sum - amount
    /\ appended' = appended + 1
    /\ UNCHANGED << pc, account, month, start_balance, end_balance, transactions, ledger,
                    interest, ytd_interest, posted_total, taxVars, pctVars, callVars,
                    billVars >>

\* the test of the while fails: on to the sort
DraftKingsExit ==
    /\ pc = "draftkings"
    /\ ~(draftkings_total < DRAFTKINGS_TARGET)
    /\ pc' = "sort"
    /\ UNCHANGED << ledgerVars, taxVars, pctVars, callVars, loopVars, billVars >>

NextDraftKings == DraftKingsIteration \/ DraftKingsExit

SpecDraftKings == InitDraftKings /\ [][NextDraftKings]_vars /\ WF_vars(NextDraftKings)

(***************************************************************************)
(* SpecCalls: sequences of at most MaxCalls calls of calculate_tax (as     *)
(* Form1040.add_tax_computation makes it, on the table of the module),     *)
(* generate_transactions and generate_savings_transactions, in any order.  *)
(* A ledger call is for the next month; its caller passes the balance the  *)
(* previous call returned when that call was for the same account, and the *)
(* opening balance otherwise.                                              *)
(***************************************************************************)
MaxCalls == 3

CallIncomes == { RETURN_TAXABLE_INCOME, Cents(30000) }

InitCalls ==
    /\ pc = "calls"
    /\ LedgerIdle
    /\ TaxIdle
    /\ PctIdle
    /\ config = MODULE_CONFIG
    /\ calls = << >>
    /\ LoopIdle
    /\ BillIdle

\* a call that takes the first bracket off the table it was handed
SeqCalculateTaxConsuming ==
    /\ pc = "calls"
    /\ Len(calls) < MaxCalls
    /\ \E income \in CallIncomes :
         /\ taxable_income' = income
         /\ brackets' = config.brackets_mfj
         /\ tax' = calculate_tax(income, config.brackets_mfj)
    /\ config' = [config EXCEPT !.brackets_mfj = Tail(@)]
    /\ calls' = Append(calls, "calculate_tax")
    /\ UNCHANGED << pc, ledgerVars, pctVars, loopVars, billVars >>

\* tax = calculate_tax(self.tax_data['taxable_income'], TAX_CONSTANTS_2023['brackets_mfj'])
SeqCalculateTax ==
    /\ pc = "calls"
    /\ Len(calls) < MaxCalls
    /\ \E income \in CallIncomes :
         /\ taxable_income' = income
         /\ brackets' = config.brackets_mfj
         /\ tax' = calculate_tax(income, config.brackets_mfj)
    /\ config' = config
    /\ calls' = Append(calls, "calculate_tax")
    /\ UNCHANGED << pc, ledgerVars, pctVars, loopVars, billVars >>

\* the balance the caller passes for the account
PassedBalance(acct) == IF account = acct THEN end_balance ELSE OpeningBalance(acct)

\* transactions, end_balance = generate_transactions(year, month, balance)
SeqGenerateTransactions ==
    /\ pc = "calls"
    /\ Len(calls) < MaxCalls
    /\ month < MONTHS
    /\ \E rng \in MainTapes :
         LET r == generate_transactions(YEAR, month + 1, PassedBalance("checking"), rng)
         IN  /\ start_balance' = PassedBalance("checking")
             /\ ledger' = r.final_transactions
             /\ end_balance' = r.balance
             /\ balance' = CarryForward(balance, r.balance)
    /\ account' = "checking"
    /\ month' = month + 1
    /\ config' = config
    /\ calls' = Append(calls, "generate_transactions")
    /\ UNCHANGED << pc, transactions, interest, ytd_interest, posted_total,
                    taxVars, pctVars, loopVars, billVars >>

\* transactions, end_balance, interest, ytd_interest =
\*     generate_savings_transactions(year, month, balance, ytd_interest)
SeqGenerateSavingsTransactions ==
    /\ pc = "calls"
    /\ Len(calls) < MaxCalls
    /\ month < MONTHS
    /\ \E d \in MainSavingsDraws(LastDay(YEAR, month + 1)) :
         LET ytd == IF account = "savings" THEN ytd_interest ELSE 0
             r == generate_savings_transactions(YEAR, month + 1, PassedBalance("savings"), ytd, d)
         IN  /\ start_balance' = PassedBalance("savings")
             /\ ledger' = r.final_transactions
             /\ end_balance' = r.balance
             /\ interest' = r.interest
             /\ ytd_interest' = r.ytd_interest
             /\ balance' = CarryForward(balance, r.balance)
    /\ account' = "savings"
    /\ month' = month + 1
    /\ config' = config
    /\ calls' = Append(calls, "generate_savings_transactions")
    /\ UNCHANGED << pc, transactions, posted_total, taxVars, pctVars, loopVars, billVars >>

NextCalls ==
    SeqCalculateTax \/ SeqGenerateTransactions \/ SeqGenerateSavingsTransactions

SpecCalls == InitCalls /\ [][NextCalls]_vars

(***************************************************************************)
(* Claims about one call of a generator (SpecGen).                         *)
(***************************************************************************)
PrevBalance(i) == IF i = 1 THEN start_balance ELSE ledger[i - 1].balance

\* C1: in every returned ledger each row's posted balance is
\* round(previous posted balance + amount, 2), the previous balance of the first
\* row being start_balance, and the returned end balance is the posted balance
\* of the last row.
C1_PostedBalances ==
    pc = "returned" =>
        /\ \A i \in DOMAIN ledger :
             ledger[i].balance = Round2(PrevBalance(i) + ledger[i].amount)
        /\ ledger # << >>
        /\ end_balance = ledger[Len(ledger)].balance

\* a checking ledger in which the balance posted before the sort differs from
\* the one posted after it
C1_Witness ==
    /\ pc = "returned"
    /\ account = "checking"
    /\ Len(ledger) > 50
    /\ \E rng \in Tapes :
         LET t == SortChecking(CheckingTransactions(YEAR, month, start_balance, rng))
         IN  /\ Len(t) = Len(ledger)
             /\ \A i \in DOMAIN t : t[i].amount = ledger[i].amount /\ t[i].date = ledger[i].date
             /\ \E i \in DOMAIN t : t[i].balance # ledger[i].balance

\* C2: every ledger (checking and savings) is ordered by date ascending, ties
\* by amount descending, so on one day every credit stands before every debit.
C2_LedgerOrder ==
    pc = "returned" =>
        /\ \A i \in 1..(Len(ledger) - 1) :
             \/ ledger[i].date < ledger[i + 1].date
             \/ /\ ledger[i].date = ledger[i + 1].date
                /\ ledger[i].amount >= ledger[i + 1].amount
        /\ \A i, j \in DOMAIN ledger :
             (ledger[i].date = ledger[j].date /\ ledger[i].amount > 0 /\ ledger[j].amount < 0)
                 => i < j

\* a savings ledger whose transfer and withdrawal fall on the same day
C2_Witness ==
    /\ pc = "returned"
    /\ account = "savings"
    /\ \E i \in 1..(Len(ledger) - 1) :
         /\ ledger[i].date = ledger[i + 1].date
         /\ ledger[i].amount > 0
         /\ ledger[i + 1].amount < 0

\* C20: in every month of 2024 and with every draw, every date a generator
\* constructs has a day between 1 and the last day of its month and every
\* random day range is non-empty, so no call ends in a ValueError: the rows of
\* the checking and savings ledgers, the day ranges of the utilities and of the
\* savings withdrawal, the bill dates, and the previous read date of the metered
\* bills, which is in the month before (December 2023 for January).
C20_ValidDates ==
    (pc = "returned" \/ pc = "billed") =>
        LET last_day == LastDay(YEAR, month)
        IN  /\ fault = "none"
            /\ \A i \in DOMAIN ledger :
                 LET day == DayOf(ledger[i].date)
                 IN  ledger[i].date = DateTime(YEAR, month, day) /\ day >= 1 /\ day <= last_day
            /\ account = "checking" =>
                 \A i \in DOMAIN UTILITIES : UTILITIES[i].dlo <= Min(UTILITIES[i].dhi, last_day)
            /\ account = "savings" => WithdrawalDays(last_day) # { }
            /\ account \in METERED =>
                 /\ BillDayRange(BILL_UTILITIES[account], last_day).lo
                        <= BillDayRange(BILL_UTILITIES[account], last_day).hi
                 /\ ValidDate(bill.bill_date)
                 /\ ValidDate(bill.prev_read_date)
                 /\ bill.prev_read_date.day = bill.bill_date.day
                 /\ bill.prev_read_date.month = (IF month = 1 THEN 12 ELSE month - 1)
                 /\ bill.prev_read_date.year = (IF month = 1 THEN YEAR - 1 ELSE YEAR)
            /\ account = "internet" => ValidDate(bill.bill_date)

\* the electric bill of January, billed on the 20th: read before on 20 December 2023
C20_Witness ==
    /\ pc = "billed"
    /\ account = "electric"
    /\ month = 1
    /\ fault = "none"
    /\ bill.bill_date = Date(YEAR, 1, 20)
    /\ bill.prev_read_date = Date(YEAR - 1, 12, 20)

\* the rows of the returned ledger with the description desc
RowsOf(desc) == { i \in DOMAIN ledger : ledger[i].desc = desc }

\* C21: a monthly savings ledger has 2 or 3 rows: one transfer credit of
\* 500.00, one interest credit, at most one withdrawal debit; the interest row
\* is dated the last day of the month and is the last row, the transfer row
\* stands before it.
C21_SavingsLedgerShape ==
    (pc = "returned" /\ account = "savings") =>
        LET n == Len(ledger)
            transfers == RowsOf("Transfer from Checking ****4827")
            interests == RowsOf("Interest Payment")
            withdrawals == DOMAIN ledger \ (transfers \cup interests)
        IN  /\ n \in { 2, 3 }
            /\ Cardinality(transfers) = 1
            /\ \A i \in transfers : ledger[i].amount = D(500, 0) /\ i < n
            /\ interests = { n }
            /\ ledger[n].date = DateTime(YEAR, month, LastDay(YEAR, month))
            /\ ledger[n].amount >= 0
            /\ Cardinality(withdrawals) <= 1
            /\ \A i \in withdrawals : ledger[i].amount < 0 /\ i < n

\* a February ledger of three rows: a withdrawal on the 24th, the latest day
\* it can fall on, after the transfer and before the interest of the 29th
C21_Witness ==
    /\ pc = "returned"
    /\ account = "savings"
    /\ month = 2
    /\ Len(ledger) = 3
    /\ ledger[1].desc = "Transfer from Checking ****4827"
    /\ ledger[2].amount < 0
    /\ DayOf(ledger[2].date) = 24
    /\ ledger[3].desc = "Interest Payment"
    /\ DayOf(ledger[3].date) = 29

\* usage charge + base charge (+ the sewer charge of a water bill), in mills
LineItems(kind, usage) ==
    usage * BILL_UTILITIES[kind].rate_per_unit + BILL_UTILITIES[kind].base_charge
    + (IF kind = "water" THEN usage * SEWER_RATE ELSE 0)

\* the usages random.randint can return for the utility in the month
Usages(kind, m) ==
    { UsageRange(kind, m).base + k : k \in UsageRange(kind, m).lo..UsageRange(kind, m).hi }

\* C24: the total of an electric, gas or water bill is the rounded sum of its
\* charges brought into the amount range of the utility (the lower bound when
\* below it, the upper bound when above), so it lies in the range, for the
\* usage drawn and for every usage that can be drawn in the month; an internet
\* bill is 75.00.
C24_BillInRange ==
    pc = "billed" =>
        /\ account \in METERED =>
             LET utility == BILL_UTILITIES[account]
                 charge == Round2(LineItems(account, bill.usage))
             IN  /\ bill.usage \in Usages(account, month)
                 /\ bill.total_amount =
                        (IF charge < utility.amount_lo THEN utility.amount_lo
                         ELSE IF charge > utility.amount_hi THEN utility.amount_hi
                         ELSE charge)
                 /\ bill.total_amount >= utility.amount_lo
                 /\ bill.total_amount <= utility.amount_hi
                 /\ \A usage \in Usages(account, month) :
                      LET t == ClampAmount(utility, BillCharges(account, usage))
                      IN  t >= utility.amount_lo /\ t <= utility.amount_hi
        /\ account = "internet" => bill.total_amount = D(75, 0)

\* the electric bill of a July of 1750 kWh: 228.50 of charges billed as 210.00
C24_Witness ==
    /\ pc = "billed"
    /\ account = "electric"
    /\ month = 7
    /\ bill.usage = 1750
    /\ LineItems("electric", bill.usage) = D(228, 50)
    /\ bill.total_amount = D(210, 0)

\* C25: a water bill uses 8 to 12 CCF; its charges, usage * 4.82 + 8.50 +
\* usage * 5.20, are above 65.00 for each of these usages, so the bill is
\* exactly 65.00 in every month, less than the sum of the three line items
\* printed on it.
C25_WaterBill ==
    (pc = "billed" /\ account = "water") =>
        /\ bill.usage >= 8 /\ bill.usage <= 12
        /\ \A usage \in 8..12 : LineItems("water", usage) > D(65, 0)
        /\ bill.total_amount = D(65, 0)
        /\ bill.total_amount <
               BILL_UTILITIES.water.base_charge
               + Round2(bill.usage * BILL_UTILITIES.water.rate_per_unit)
               + Round2(bill.usage * SEWER_RATE)

\* the water bill of a month of 8 CCF: 38.56 + 8.50 + 41.60 = 88.66, billed 65.00
C25_Witness ==
    /\ pc = "billed"
    /\ account = "water"
    /\ bill.usage = 8
    /\ LineItems("water", bill.usage) = D(88, 66)
    /\ bill.total_amount = D(65, 0)

(***************************************************************************)
(* Claims about the ledger-building step (SpecLedger).                     *)
(***************************************************************************)
TwoDecimal(rows) == \A i \in DOMAIN rows : rows[i].amount % 10 = 0

Permuted(rows, p) == [i \in DOMAIN rows |-> rows[p[i]]]

EXAMPLE_TRANSACTIONS ==
    << Row(DateTime(YEAR, 1, 2), "t", -D(50, 0), 0),
       Row(DateTime(YEAR, 1, 1), "t", D(200, 0), 0) >>

\* C16: from 1000.00 and the list [(day 2, -50.00), (day 1, +200.00)] the
\* ledger holds the day-1 credit first, then the day-2 debit, with the
\* balances 1200.00 and 1150.00.
C16_LedgerExample ==
    (pc = "built" /\ start_balance = D(1000, 0) /\ transactions = EXAMPLE_TRANSACTIONS) =>
        /\ Len(ledger) = 2
        /\ DayOf(ledger[1].date) = 1 /\ ledger[1].amount = D(200, 0)
        /\ DayOf(ledger[2].date) = 2 /\ ledger[2].amount = -D(50, 0)
        /\ ledger[1].balance = D(1200, 0)
        /\ ledger[2].balance = D(1150, 0)
        /\ end_balance = D(1150, 0)

\* the checking ledger of the example has been built
C16_Witness ==
    /\ pc = "built"
    /\ account = "checking"
    /\ start_balance = D(1000, 0)
    /\ transactions = EXAMPLE_TRANSACTIONS
    /\ Len(ledger) = 2
    /\ ledger[2].balance = D(1150, 0)

(***************************************************************************)
(* Claims about the monthly runs (SpecMain).                               *)
(***************************************************************************)
\* C9: month 1 starts from the fixed opening balance, every later month starts
\* from the end balance returned for the month before, and so the balance
\* carried (at the end: the final balance) is the opening balance plus the sum
\* of the amounts of all ledgers written.
C9_CarriedBalance ==
    /\ [](month = 1 => start_balance = OpeningBalance(account))
    /\ [][(month >= 1 /\ month' = month + 1) => start_balance' = end_balance]_vars
    /\ [](balance = OpeningBalance(account) + posted_total)
    /\ [](month >= 1 => balance = end_balance)

\* the year is over and the balance moved
C9_Witness ==
    /\ pc = "done"
    /\ month = MONTHS
    /\ posted_total # 0
    /\ balance # OpeningBalance(account)
    /\ start_balance # OpeningBalance(account)

\* C10: a debit that takes the running balance below zero is posted as it is
\* (neither clamped to 0 nor rejected) and the next row continues from it.
C10_NegativePosted ==
    \A i \in DOMAIN ledger :
        PrevBalance(i) + ledger[i].amount < 0 =>
            /\ ledger[i].balance = PrevBalance(i) + ledger[i].amount
            /\ ledger[i].balance < 0
            /\ i < Len(ledger) =>
                 ledger[i + 1].balance = ledger[i].balance + ledger[i + 1].amount

\* January of the checking account, from 3500.00: negative before the 15th
C10_Witness ==
    /\ account = "checking"
    /\ month = 1
    /\ start_balance = D(3500, 0)
    /\ \E i \in DOMAIN ledger :
         /\ DayOf(ledger[i].date) < 15
         /\ ledger[i].amount < 0
         /\ ledger[i].balance < 0
         /\ i < Len(ledger)

\* C22: the interest of a month is the starting balance of the month times
\* 4.25% / 12 (17/4800), rounded to the cent: it is a whole number of cents no
\* more than half a cent from that product, whatever was transferred or
\* withdrawn in the month; each call returns the year-to-date interest it was
\* given plus that interest, so over the twelve months of main the
\* year-to-date interest starts at 0, never decreases, and is the sum of the
\* interest of the months so far.
C22_InterestAndYtd ==
    /\ []((account = "savings" /\ month >= 1) =>
            /\ interest % 10 = 0
            /\ interest * MonthlyRateDen - start_balance * MonthlyRateNum <= 5 * MonthlyRateDen
            /\ start_balance * MonthlyRateNum - interest * MonthlyRateDen <= 5 * MonthlyRateDen
            /\ Cardinality(RowsOf("Interest Payment")) = 1
            /\ \A i \in RowsOf("Interest Payment") : ledger[i].amount = interest)
    /\ []((account = "savings" /\ month = 0) => ytd_interest = 0)
    /\ [][(account = "savings" /\ month' = month + 1) =>
            /\ ytd_interest' = ytd_interest + interest'
            /\ ytd_interest' >= ytd_interest]_vars

\* December of the savings run: 8500.00 has grown, and the interest of the year
\* is more than that of the month
C22_Witness ==
    /\ account = "savings"
    /\ month = MONTHS
    /\ start_balance > D(8500, 0)
    /\ interest > 0
    /\ ytd_interest > 11 * D(30, 10)
    /\ ytd_interest > interest

\* C23: in the twelve months of the savings run from 8500.00 no posted balance
\* is negative: none is below 2000.00, whatever is withdrawn and when.
C23_SavingsFloor ==
    account = "savings" =>
        /\ balance >= D(2000, 0)
        /\ start_balance >= D(2000, 0)
        /\ \A i \in DOMAIN ledger :
             ledger[i].balance >= D(2000, 0) /\ ledger[i].balance >= 0

\* the worst year: 1000.00 withdrawn on the 5th of every month, before the
\* transfer arrives; December's withdrawal leaves less than 2300.00
C23_Witness ==
    /\ account = "savings"
    /\ month = MONTHS
    /\ Len(ledger) = 3
    /\ ledger[1].amount = -D(1000, 0)
    /\ ledger[1].balance < D(2300, 0)
    /\ ledger[1].balance >= D(2000, 0)

(***************************************************************************)
(* Claims about calculate_tax (SpecTax).                                   *)
(***************************************************************************)
\* the sum over all brackets of max(0, min(I, upper_bound) - previous_bound) * rate
RECURSIVE ReferenceSum(_, _, _, _)
ReferenceSum(income, table, i, prev) ==
    IF i > Len(table) THEN 0
    ELSE Max(0, Min(income, table[i].limit) - prev) * table[i].rate
         + ReferenceSum(income, table, i + 1, table[i].limit)

\* C4: for every income >= 0 and every table with strictly increasing bounds,
\* calculate_tax is the reference sum over all brackets, rounded to cents; the
\* early break changes nothing.
C4_ReferenceFormula ==
    (pc = "taxed" /\ taxable_income >= 0 /\ ValidTable(brackets)) =>
        tax = RoundHalfEven(ReferenceSum(taxable_income, brackets, 1, 0), 100)

\* the return's own case: 132685.00 under the table of the return, where the
\* loop breaks after the third bracket
C4_Witness ==
    /\ pc = "taxed"
    /\ brackets = BRACKETS_MFJ
    /\ taxable_income = RETURN_TAXABLE_INCOME
    /\ tax = 1980570

\* C5: calculate_tax is monotonically non-decreasing in income.
C5_Monotone ==
    pc = "taxed" =>
        \A i1 \in IncomesFor(brackets) :
            i1 <= taxable_income => calculate_tax(i1, brackets) <= tax

\* two incomes in different brackets of the table of the return, the tax of the
\* higher one strictly larger
C5_Witness ==
    /\ pc = "taxed"
    /\ brackets = BRACKETS_MFJ
    /\ taxable_income > Cents(89450)
    /\ \E i1 \in IncomesFor(brackets) :
         /\ i1 < Cents(22000)
         /\ i1 > 0
         /\ calculate_tax(i1, brackets) < tax

\* C6: across a finite limit b the tax rises by the step times the rate of the
\* next bracket, up to the rounding of the two results (a cent): no jump at b.
C6_Continuous ==
    pc = "taxed" =>
        \A i \in 1..(Len(brackets) - 1) : \A d \in Increments :
            LET b == brackets[i].limit
                diff == 100 * (tax - calculate_tax(b, brackets)) - d * brackets[i + 1].rate
            IN  (taxable_income = b + d /\ b + d <= brackets[i + 1].limit) =>
                    (diff <= 100 /\ -diff <= 100)

\* an income 50.00 above the second limit of the table of the return
C6_Witness ==
    /\ pc = "taxed"
    /\ brackets = BRACKETS_MFJ
    /\ taxable_income = Cents(89450) + 5000
    /\ tax = calculate_tax(Cents(89450), brackets) + 1100

\* the tax of the first i brackets, each taken in full, in cent-percent
RECURSIVE FullBrackets(_, _)
FullBrackets(table, i) ==
    IF i = 0 THEN 0
    ELSE FullBrackets(table, i - 1)
         + (table[i].limit - (IF i = 1 THEN 0 ELSE table[i - 1].limit)) * table[i].rate

\* C11: an income equal to the upper bound b of the i-th bracket is taxed in
\* full through brackets 1..i and not at all above: the loop body runs for
\* exactly those i brackets and the result is their tax.
C11_BoundaryIncome ==
    pc = "taxed" =>
        \A i \in DOMAIN brackets :
            (brackets[i].limit # INF /\ taxable_income = brackets[i].limit) =>
                /\ tax = RoundHalfEven(FullBrackets(brackets, i), 100)
                /\ BracketsTaxed(taxable_income, brackets, 1, 0) = i

\* 89450.00 under the table of the return: 2200.00 + 8094.00, five brackets left
C11_Witness ==
    /\ pc = "taxed"
    /\ brackets = BRACKETS_MFJ
    /\ taxable_income = Cents(89450)
    /\ tax = 1029400
    /\ BracketsTaxed(taxable_income, brackets, 1, 0) = 2

\* C12: under a table whose last bracket is unbounded, an income above the
\* last finite bound L pays the tax of the brackets below L in full plus
\* (income - L) at the top rate: the last bracket never truncates the income.
C12_TopBracket ==
    pc = "taxed" =>
        LET n == Len(brackets)
            L == IF n = 1 THEN 0 ELSE brackets[n - 1].limit
        IN  (brackets[n].limit = INF /\ taxable_income > L) =>
                tax = RoundHalfEven(FullBrackets(brackets, n - 1)
                                    + (taxable_income - L) * brackets[n].rate, 100)

\* 750000.00 under the table of the return: 186601.50 up to 693750.00 and
\* 56250.00 at 37%
C12_Witness ==
    /\ pc = "taxed"
    /\ brackets = BRACKETS_MFJ
    /\ taxable_income = Cents(750000)
    /\ tax = 20741400

\* C13: a taxable income of 0 pays 0 under every table: the loop breaks
\* before the body of the first bracket runs.
C13_ZeroIncome ==
    (pc = "taxed" /\ taxable_income = 0) =>
        /\ tax = 0
        /\ BracketsTaxed(taxable_income, brackets, 1, 0) = 0

\* income 0 under the table of the return
C13_Witness ==
    /\ pc = "taxed"
    /\ brackets = BRACKETS_MFJ
    /\ taxable_income = 0
    /\ tax = 0

\* the sum of the per-bracket amounts, each rounded to cents on its own
RECURSIVE RoundedPerBracket(_, _, _, _)
RoundedPerBracket(income, table, i, prev) ==
    IF i > Len(table) THEN 0
    ELSE RoundHalfEven(Max(0, Min(income, table[i].limit) - prev) * table[i].rate, 100)
         + RoundedPerBracket(income, table, i + 1, table[i].limit)

\* C14: the result is the cent nearest to the unrounded sum of the per-bracket
\* products (one rounding, of the total): it is never more than half a cent
\* from that sum, which a sum of per-bracket roundings can be.
C14_RoundedOnce ==
    pc = "taxed" =>
        LET exact == ReferenceSum(taxable_income, brackets, 1, 0)
        IN  /\ 100 * tax - exact <= 50
            /\ exact - 100 * tax <= 50

\* 0.05 under brackets (0.04, 12%), (inf, 12%): 0.0048 + 0.0012 rounds to 0.01,
\* the two products rounded one by one give 0.00
C14_Witness ==
    /\ pc = "taxed"
    /\ brackets = CENT_BRACKETS
    /\ taxable_income = 5
    /\ tax = 1
    /\ RoundedPerBracket(taxable_income, brackets, 1, 0) = 0

\* C15: brackets [(22000, 0.10), (89450, 0.12)] and income 30000 give 3160.00,
\* 2200.00 from the first bracket and 960.00 from the second.
C15_Example ==
    (pc = "taxed" /\ brackets = EXAMPLE_BRACKETS /\ taxable_income = Cents(30000)) =>
        /\ tax = Cents(3160)
        /\ FullBrackets(brackets, 1) = 100 * Cents(2200)
        /\ 100 * tax - FullBrackets(brackets, 1) = 100 * Cents(960)

\* the call of the example has returned
C15_Witness ==
    /\ pc = "taxed"
    /\ brackets = EXAMPLE_BRACKETS
    /\ taxable_income = Cents(30000)
    /\ tax = 316000
    /\ BracketsTaxed(taxable_income, brackets, 1, 0) = 2

\* C17: the table the return passes to calculate_tax has strictly increasing
\* upper bounds, every rate between 0 and 1 (0..100 percent), and its last
\* entry, and no other, unbounded.
C17_TableInvariant ==
    (pc = "taxed" /\ brackets = BRACKETS_MFJ) =>
        /\ \A i \in DOMAIN brackets : \A j \in DOMAIN brackets :
             i < j => brackets[i].limit < brackets[j].limit
        /\ \A i \in DOMAIN brackets : brackets[i].rate >= 0 /\ brackets[i].rate <= 100
        /\ \A i \in DOMAIN brackets : (brackets[i].limit = INF) <=> (i = Len(brackets))

\* the tax of the return has been computed under its seven brackets
C17_Witness ==
    /\ pc = "taxed"
    /\ brackets = BRACKETS_MFJ
    /\ Len(brackets) = 7
    /\ taxable_income = RETURN_TAXABLE_INCOME
    /\ tax > 0

(***************************************************************************)
(* Claims about the DraftKings loop (SpecDraftKings).                      *)
(***************************************************************************)
\* C19: the DraftKings loop ends whatever is drawn; when it has ended the
\* amounts it appended sum to exactly 700.00; every wager is positive and at
\* most 75.00; the loop appends at least 10 and at most 46 rows.
C19_DraftKingsLoop ==
    /\ [](last_row # << >> =>
             (-last_row.amount > 0 /\ -last_row.amount <= D(75, 0)))
    /\ [](appended <= 46 /\ -appended_sum <= D(700, 0))
    /\ [](pc = "sort" =>
             (appended_sum = -D(700, 0) /\ appended >= 10 /\ appended <= 46))
    /\ <>(pc = "sort")

\* the longest loop: 45 wagers of 15.00 and a closing one of 25.00
C19_Witness ==
    /\ pc = "sort"
    /\ appended = 46
    /\ appended_sum = -D(700, 0)
    /\ last_row.amount = -D(25, 0)

C8_ZeroBaseIsZeroPercent ==
    /\ (pc = "account_summary_end" /\ summary_data.beginning_balance = 0) =>
           (fault = "none" /\ pct = << 0 >>)
    /\ (pc = "investment_allocation_end" /\ investments # << >>
            /\ SumValues(investments) = 0) =>
           (fault = "none" /\ \A i \in DOMAIN pct : pct[i] = 0)
    /\ (pc = "summary_page_end" /\ tax_data.total_income = 0) =>
           (fault = "none" /\ pct = << 0 >>)

(***************************************************************************)
(* Claims about the sections of the tax return (SpecReturn).               *)
(***************************************************************************)
KeysOf(data) == DOMAIN data

\* a step that writes key finds every key of earlier already written
WrittenAfter(key, earlier) ==
    (key \notin KeysOf(tax_data) /\ key \in KeysOf(tax_data'))
        => earlier \subseteq KeysOf(tax_data)

\* C26: along the sections of main no section reads a key of tax_data that
\* is missing: total_income is written before agi, agi before
\* taxable_income, taxable_income before tax, total_tax and total_payments
\* before refund and amount_owed, and all of them before the summary page.
C26_KeysWrittenBeforeRead ==
    /\ [](/\ fault # "KeyError"
          /\ pc \in { SECTIONS[i] : i \in 1..Len(SECTIONS) }
                => ReadsOf(pc, tax_data) \subseteq KeysOf(tax_data)
          /\ pc = "add_adjustments_section" => "total_income" \in KeysOf(tax_data)
          /\ pc = "add_deductions_section" => "agi" \in KeysOf(tax_data)
          /\ pc = "add_tax_computation" => "taxable_income" \in KeysOf(tax_data)
          /\ pc = "add_refund_section"
                => { "total_tax", "total_payments" } \subseteq KeysOf(tax_data)
          /\ pc \in { "add_summary_page", "print_summary" }
                => { "total_income", "agi", "standard_deduction", "taxable_income",
                     "total_tax", "total_payments", "refund", "amount_owed" }
                        \subseteq KeysOf(tax_data))
    /\ [][/\ WrittenAfter("agi", { "total_income" })
          /\ WrittenAfter("taxable_income", { "agi" })
          /\ WrittenAfter("tax", { "taxable_income" })
          /\ WrittenAfter("total_tax", { "taxable_income" })
          /\ WrittenAfter("refund", { "total_tax", "total_payments" })
          /\ WrittenAfter("amount_owed", { "total_tax", "total_payments" })]_vars

\* the whole sequence has run, the print-out included, and every key is there
C26_Witness ==
    /\ pc = "return_done"
    /\ fault = "none"
    /\ { "total_income", "agi", "standard_deduction", "taxable_income", "tax",
         "total_tax", "total_payments", "refund", "amount_owed" }
            \subseteq KeysOf(tax_data)
    /\ tax_data["total_income"] = Cents(160385)

\* C27: once add_refund_section has run, refund and amount_owed are both at
\* least 0, at most one of them is not 0, and refund - amount_owed =
\* total_payments - total_tax, whatever the payments and the tax are; the
\* taxable income is max(0, AGI - standard deduction) and never negative.
C27_RefundAndTaxable ==
    /\ "refund" \in KeysOf(tax_data) =>
          /\ tax_data["refund"] >= 0
          /\ tax_data["amount_owed"] >= 0
          /\ tax_data["refund"] = 0 \/ tax_data["amount_owed"] = 0
          /\ tax_data["refund"] - tax_data["amount_owed"]
                = tax_data["total_payments"] - tax_data["total_tax"]
    /\ "taxable_income" \in KeysOf(tax_data) =>
          /\ tax_data["taxable_income"] >= 0
          /\ tax_data["taxable_income"]
                = (IF tax_data["agi"] > STANDARD_DEDUCTION_MFJ
                   THEN tax_data["agi"] - STANDARD_DEDUCTION_MFJ ELSE 0)

\* the payments fall short of the tax: an amount is owed and no refund is due
C27_Witness ==
    /\ "refund" \in KeysOf(tax_data)
    /\ tax_data["total_payments"] < tax_data["total_tax"]
    /\ tax_data["amount_owed"] > 0
    /\ tax_data["refund"] = 0
    /\ tax_data["taxable_income"] > 0


====
